---- MODULE Spec2Model ----
(***************************************************************************)
(* The frame pipelines of laplacecode/auto_check_yolo.                     *)
(*                                                                         *)
(*   src/src/backend/hq_stream_server.py   HighQualityFrameProcessor, the  *)
(*       /upload handler and the WebSocket /stream session loop            *)
(*   src/src/backend/stream_server.py      VideoStreamBuffer and its       *)
(*       consumer call get_processed_frame                                 *)
(*   src/src/backend/server.py             /offer (pcs, the data channel   *)
(*       and its message_queue), run_track, the WebSocket fan-out          *)
(*       broadcast_detection_result, websocket_endpoint and load_model     *)
(*   src/src/backend/udp_server.py         start_udp_server's loop         *)
(*   src/src/frontend/client.py            the cached detection set        *)
(*                                                                         *)
(* One server module is loaded per process; `app` records which.  Frames   *)
(* are numbered 1, 2, ... in the order the producer submits them.  `fate`  *)
(* is a history variable: what has become of each submitted frame.  It is  *)
(* derived from what the queues did, never from the program's counters.    *)
(***************************************************************************)
EXTENDS Integers, Sequences, FiniteSets, Bags, TLC

\* ---------------------------------------------------------------- bounds
MaxFrames == 3      \* frames the producer submits in one run
BufferSize == 1     \* HighQualityFrameProcessor(buffer_size=...)
MaxSize == 1        \* VideoStreamBuffer(max_size=...)
MaxWorkers == 2     \* worker threads alive at once
MaxSessions == 2    \* WebSocket /stream sessions open at once
MaxClients == 2     \* WebSocket /ws connections made in one run
MaxTracks == 1      \* media tracks received by /offer in one run
MaxTrackFrames == 10  \* frames one track delivers
MaxDatagrams == 3   \* datagrams the UDP server receives in one run
MaxSenders == 2     \* addresses the datagrams come from
MaxDim == 2         \* image widths and heights
MaxDet == 2         \* objects the detector finds in one image
MaxElapsed == 25    \* tenths of a second the client runs
MaxBad == 2         \* uploads that are no image
MaxCallers == 2     \* threads that call load_model
MaxCalls == 3       \* calls of load_model by one thread
MaxLoops == 2       \* detection_loop threads alive at once
MaxLoopFrames == 15 \* frames one detection_loop captures
MaxInFlight == 2    \* async_detection threads alive at once
MaxBytes == 6       \* bytes the /video_stream response delivers
MaxChunk == 2       \* bytes in one chunk of iter_content

Frames == 1..MaxFrames
Clients == 1..MaxClients
Tracks == 1..MaxTracks

Callers == 1..MaxCallers
\* the threads that use VideoStreamBuffer.lock
LockThreads == {"worker", "upload", "stream"}
Senders == 1..MaxSenders
Dims == 1..MaxDim

\* server.py: `if frame_count[0] % 5 == 0`
DetectEvery == 5

\* udp_server.py: `if len(response) < 65000`
DatagramLimit == 65000

\* client.py: `time.time() - self.last_detection_time > 2.0`, in tenths of a
\* second
ExpireTicks == 20
\* detection_loop sends every 15th frame to the detector
SendEvery == 15

VARIABLES
    app,            \* which server module the process serves
    asyncio_bound,  \* whether the name asyncio is bound in hq_stream_server's globals
    next_frame,     \* number of the next frame the producer submits
    fate,           \* history: what became of each frame
    hq_input, hq_output, hq_running, hq_stats,
    hq_worker,      \* the live process_worker threads, a bag of
                    \*   [pc: position, frame: the frame in hand]
    hq_session,     \* the live websocket_stream coroutines, a bag of
                    \*   [pc: position, frame_count, frame: the frame in hand]
    vsb_input, vsb_output, vsb_running, vsb_frame_count, vsb_last_frame,
    vsb_worker,     \* the live process_frames threads, a bag of
                    \*   [pc: position, frame: the frame in hand, processed_count]
    ws_state,       \* per /ws connection: "new", "open", "broken" (the peer is
                    \*   gone, the handler has not noticed yet), "gone"
    websocket_clients,  \* server.py's module-level set
    run_track,      \* per /offer call: its run_track coroutine, the position and
                    \*   the locals of the broadcast_detection_result call it is
                    \*   in, and the call's message_queue and queue_flushed
    pcs,            \* server.py's module-level set of RTCPeerConnections, each
                    \*   named by its /offer call
    data_channel,   \* per /offer call: readyState of its data channel, "none"
                    \*   before the call
    udp_pc,         \* start_udp_server: "recv" while its loop runs
    udp_addr,       \* its local addr, 0 while unbound
    udp_frame_count,
    udp_request,    \* history: the request the latest iteration received
    udp_sent,       \* history: the datagrams the latest iteration sent
    udp_bad,        \* history: the requests so far that could not be served
    now,            \* time.time(), in tenths of a second
    detections, last_detection_time,    \* VideoClient's cache
    snapshot,       \* detections_snapshot of the latest read
    stored,         \* history: the list the latest update stored
    cache_lock,     \* VideoClient.lock: "free" or "writer" (a read holds it
                    \*   for one step only)
    writer_pc,      \* async_detection: "idle", or "time" between its two stores
    torn_read,      \* history: a read ran between the writer's two stores
    last_upload,    \* history: the latest call of upload_frame, its payload and
                    \*   the status it returned; bad: undecodable payloads so far
    model,          \* _model: 0 for None, else the instance, named by the number
                    \*   of the load that made it
    model_lock,     \* _model_lock: "free" or "held"
    loader,         \* per calling thread: its position in load_model, the value
                    \*   its latest call returned, the calls it has made
    loads,          \* history: the loads that have made an instance
    vsb_lock,       \* VideoStreamBuffer.lock: "free", or the thread holding it
    vsb_thread,     \* the worker, the upload handler and a /video_stream
                    \*   consumer, statement by statement: [pc, frame,
                    \*   processed_count]
    captured,       \* StreamClient.upload_loop: frames captured so far
    img_b64,        \* upload_loop's local of that name: the frame it holds
    post_thread,    \* the live per-frame upload threads, a bag of
                    \*   [pc: position, frame: the frame it posts]
    appended,       \* history: the frames add_frame appended, in order
    vc_running,     \* VideoClient.running
    det_loop,       \* the live detection_loop threads, a bag of
                    \*   [pc: position, frame_count]
    detection_in_progress,  \* VideoClient's flag of that name
    in_flight,      \* the async_detection threads alive
    rx_stream,      \* history: the bytes receive_stream has been handed so far
    bytes_data,     \* receive_stream's buffer of that name
    rx_jpgs         \* history: the byte strings receive_stream cut out as jpg

envVars == <<app, asyncio_bound>>
histVars == <<next_frame, fate>>
hqVars == <<hq_input, hq_output, hq_running, hq_stats, hq_worker, hq_session>>
vsbVars == <<vsb_input, vsb_output, vsb_running, vsb_frame_count, vsb_last_frame,
             vsb_worker>>
wsVars == <<ws_state, websocket_clients, run_track, pcs, data_channel>>
udpVars == <<udp_pc, udp_addr, udp_frame_count, udp_request, udp_sent, udp_bad>>
cacheVars == <<now, detections, last_detection_time, snapshot, stored, cache_lock,
               writer_pc, torn_read>>
ingestVars == <<last_upload>>
loadVars == <<model, model_lock, loader, loads>>
lockVars == <<vsb_lock, vsb_thread>>
upVars == <<captured, img_b64, post_thread, appended>>
vcVars == <<vc_running, det_loop, detection_in_progress, in_flight>>
rxVars == <<rx_stream, bytes_data, rx_jpgs>>
auxVars == <<lockVars, upVars, vcVars, rxVars>>
\* the variables of the server modules, the UDP server, the cache and the loader
coreVars == <<envVars, histVars, hqVars, vsbVars, wsVars, udpVars, cacheVars,
              ingestVars, loadVars>>
restVars == <<wsVars, udpVars, cacheVars, ingestVars, loadVars, auxVars>>
streamVars == <<histVars, hqVars, vsbVars, ingestVars, loadVars, auxVars>>
vars == <<envVars, histVars, hqVars, vsbVars, restVars>>

\* ------------------------------------------------------------- data
None == [id |-> 0, buf |-> "none"]
\* frame.copy(): a new buffer made by the worker
Copy(f) == [id |-> f, buf |-> "copy"]
\* the very object that was submitted
Orig(f) == [id |-> f, buf |-> "orig"]

Min(a, b) == IF a < b THEN a ELSE b

\* a Queue built without its maxsize: put_nowait never raises Full
put_nowait_unbounded(q, x, maxsize) == [ok |-> TRUE, q |-> Append(q, x)]

\* queue.Queue.put_nowait on a Queue(maxsize): raises Full, and leaves the
\* queue alone, when the queue holds maxsize items
put_nowait(q, x, maxsize) ==
    IF Len(q) >= maxsize
    THEN [ok |-> FALSE, q |-> q]
    ELSE [ok |-> TRUE, q |-> Append(q, x)]

\* collections.deque(maxlen).append: when full, the item at the left end is
\* discarded to make room
deque_append(q, x, maxlen) ==
    IF Len(q) >= maxlen
    THEN [q |-> Append(Tail(q), x), evicted |-> <<Head(q)>>]
    ELSE [q |-> Append(q, x), evicted |-> <<>>]

\* threads and coroutines are anonymous: a pool is the bag of their states
Spawn(pool, t) == pool (+) SetToBag({t})
Exit(pool, t) == pool (-) SetToBag({t})
\* thread (coroutine) t takes a step and is every member of `after` afterwards:
\* one state when it goes on, none when it has ended
Step(pool, t, after) == Exit(pool, t) (+) SetToBag(after)

\* a run_track coroutine that does not exist (yet)
Idle == [pc |-> "idle", frame_count |-> 0, cause |-> "", cur |-> 0, size |-> 0,
         todo |-> {}, snap |-> {}, done |-> {}, failed |-> {},
         message_queue |-> <<>>, queue_flushed |-> FALSE]

\* no datagram
NoRequest == [from |-> 0, kind |-> "none", w |-> 0, h |-> 0, det |-> "none",
              n |-> 0, size |-> 0]

\* a list of n detections
DetList(n) == [i \in 1..n |-> i]

\* the wall clock when the client starts: the epoch is long past
StartTime == ExpireTicks + 1
\* what /upload may carry: an encoded image, or bytes that are no image
Payloads == {"image", "garbage"}
NoUpload == [bad |-> 0, payload |-> "none", response |-> "none"]
\* a decoder that makes a frame of any bytes
decode_anything(payload) == TRUE
\* upload_frame's base64.b64decode, Image.open, convert, np.array: they return a
\* frame for an encoded image and raise for anything else
decode(payload) == payload = "image"
\* the record of one more upload_frame call
Uploaded(u, payload, response) ==
    [bad |-> u.bad + (IF payload = "image" THEN 0 ELSE 1), payload |-> payload,
     response |-> response]

\* ------------------------------------------- HighQualityFrameProcessor
\* __init__: stats
InitStats == [received |-> 0, processed |-> 0, sent |-> 0, dropped |-> 0]

\* add_frame that makes room by discarding the oldest queued frame
add_frame_drop_oldest(q, stats, f) ==
    IF Len(q) >= BufferSize
    THEN [q |-> Append(Tail(q), f),
          stats |-> [stats EXCEPT !.received = @ + 1, !.dropped = @ + 1]]
    ELSE [q |-> Append(q, f), stats |-> [stats EXCEPT !.received = @ + 1]]

\* add_frame(frame_rgb): put_nowait, then received += 1; on Full dropped += 1
add_frame(q, stats, f) ==
    LET r == put_nowait(q, f, BufferSize)
    IN  IF r.ok
        THEN [q |-> r.q, stats |-> [stats EXCEPT !.received = @ + 1]]
        ELSE [q |-> q, stats |-> [stats EXCEPT !.dropped = @ + 1]]

\* worker_put whose handler of Full counts nothing (`except: pass`)
worker_put_silent(q, stats, fr) ==
    LET r == put_nowait(q, fr, BufferSize)
    IN  IF r.ok
        THEN [q |-> r.q, stats |-> [stats EXCEPT !.processed = @ + 1]]
        ELSE [q |-> q, stats |-> stats]

\* process_worker, "# 输出到队列": put_nowait(annotated_frame), then
\* processed += 1; on Full dropped += 1
worker_put(q, stats, fr) ==
    LET r == put_nowait(q, fr, BufferSize)
    IN  IF r.ok
        THEN [q |-> r.q, stats |-> [stats EXCEPT !.processed = @ + 1]]
        ELSE [q |-> q, stats |-> [stats EXCEPT !.dropped = @ + 1]]

\* an iteration without the outer try: what is raised ends the thread
hq_except_exit(t) == {}

\* process_worker's outer `except: time.sleep(0.01)`: the thread after anything
\* raised inside the iteration (queue.Empty, the model, the drawing) is back at
\* `while self.running`, with no frame in hand
hq_except(t) == {[pc |-> "check", frame |-> 0]}

\* a loop that never looks at the flag
hq_while_forever(t, running) == {[t EXCEPT !.pc = "get"]}

\* `while self.running:` the thread goes on to the dequeue, or returns
hq_while(t, running) == IF running THEN {[t EXCEPT !.pc = "get"]} ELSE {}

\* the `await asyncio.sleep(sleep_time)` that ends a delivery cycle: asyncio is
\* imported only under `if __name__ == "__main__"`, so when the module is
\* imported (uvicorn hq_stream_server:app) the name is unbound, the statement
\* raises NameError and `except Exception` ends the session
after_sleep(sess) == IF asyncio_bound THEN {[sess EXCEPT !.pc = "loop"]} ELSE {}

\* a get_frame that hands out the newest frame and leaves the queue as it is
get_frame_latest(q) ==
    IF q # <<>> THEN [frame |-> q[Len(q)], q |-> q] ELSE [frame |-> None, q |-> q]

\* a get_frame that hands the head of the queue out and leaves it queued
get_frame_peek(q) ==
    IF q # <<>> THEN [frame |-> Head(q), q |-> q] ELSE [frame |-> None, q |-> q]

\* get_frame(): output_queue.get(timeout=0.1); on anything raised (queue.Empty), None
get_frame(q) ==
    IF q # <<>> THEN [frame |-> Head(q), q |-> Tail(q)] ELSE [frame |-> None, q |-> q]

\* websocket_stream, `if frame is not None:` the cycle encodes and sends the
\* frame get_frame returned; with None the body is skipped and nothing is sent
cycle_sends(q) == get_frame(q).frame # None

\* the session's bookkeeping after send_json returned
session_sent(stats, frame_count) ==
    [frame_count |-> frame_count + 1,
     stats |-> [stats EXCEPT !.sent = frame_count + 1]]

\* upload_frame (/upload): try: decode; frame_processor.add_frame(frame_rgb);
\* return {"status": "ok"}; except Exception: return {"status": "error", ...}
hq_upload_frame(payload, q, stats, f) ==
    IF decode(payload)
    THEN LET r == add_frame(q, stats, f)
         IN  [q |-> r.q, stats |-> r.stats, response |-> "ok"]
    ELSE [q |-> q, stats |-> stats, response |-> "error"]

HqUploadFrame(payload) ==
    /\ app = "hq"
    /\ decode(payload) => next_frame <= MaxFrames
    /\ payload # "image" => last_upload.bad < MaxBad
    /\ LET f == next_frame
           r == hq_upload_frame(payload, hq_input, hq_stats, f)
       IN  /\ hq_input' = r.q
           /\ hq_stats' = r.stats
           /\ last_upload' = Uploaded(last_upload, payload, r.response)
           /\ IF decode(payload)
              THEN /\ fate' = [fate EXCEPT ![f] = IF r.q # hq_input THEN "in_q"
                                                  ELSE "in_rejected"]
                   /\ next_frame' = next_frame + 1
              ELSE UNCHANGED <<fate, next_frame>>
    /\ UNCHANGED <<envVars, wsVars, udpVars, cacheVars, loadVars, auxVars, hq_output,
                   hq_running, hq_worker, hq_session, vsbVars>>

\* /upload with a decodable image
HqAddFrame == HqUploadFrame("image")

\* start(): if not running, set running and spawn a process_worker thread
HqStart ==
    /\ app = "hq"
    /\ IF hq_running
       THEN UNCHANGED <<hq_running, hq_worker>>
       ELSE /\ BagCardinality(hq_worker) < MaxWorkers
            /\ hq_worker' = Spawn(hq_worker, [pc |-> "check", frame |-> 0])
            /\ hq_running' = TRUE
    /\ UNCHANGED <<envVars, restVars, histVars, hq_input, hq_output, hq_stats, hq_session,
                   vsbVars>>

\* stop()
HqStop ==
    /\ app = "hq"
    /\ hq_running' = FALSE
    /\ UNCHANGED <<envVars, restVars, histVars, hq_input, hq_output, hq_stats, hq_worker,
                   hq_session, vsbVars>>

\* `while self.running:`
HqWorkerCheck(t) ==
    /\ app = "hq"
    /\ t.pc = "check"
    /\ hq_worker' = Step(hq_worker, t, hq_while(t, hq_running))
    /\ UNCHANGED <<envVars, restVars, histVars, hq_input, hq_output, hq_running, hq_stats,
                   hq_session, vsbVars>>

\* `frame = self.input_queue.get(timeout=0.1)`; queue.Empty goes to the outer except
HqWorkerGet(t) ==
    /\ app = "hq"
    /\ t.pc = "get"
    /\ IF hq_input # <<>>
       THEN /\ hq_worker' = Step(hq_worker, t, {[pc |-> "busy",
                                                 frame |-> Head(hq_input)]})
            /\ hq_input' = Tail(hq_input)
            /\ fate' = [fate EXCEPT ![Head(hq_input)] = "held"]
       ELSE /\ hq_worker' = Step(hq_worker, t, hq_except(t))
            /\ UNCHANGED <<hq_input, fate>>
    /\ UNCHANGED <<envVars, restVars, next_frame, hq_output, hq_running, hq_stats, hq_session,
                   vsbVars>>

\* the rest of the iteration: `annotated_frame = frame.copy()`, model(frame) and
\* the drawing, then the inner try: put_nowait(annotated_frame) and the counters.
\* `raised`: the model or the drawing raised, which the outer except swallows
HqWorkerFinish(t, raised) ==
    /\ app = "hq"
    /\ t.pc = "busy"
    /\ LET r == worker_put(hq_output, hq_stats, Copy(t.frame))
       IN  IF raised
           THEN /\ hq_worker' = Step(hq_worker, t, hq_except(t))
                /\ fate' = [fate EXCEPT ![t.frame] = "lost"]
                /\ UNCHANGED <<hq_output, hq_stats>>
           ELSE /\ hq_output' = r.q
                /\ hq_stats' = r.stats
                /\ fate' = [fate EXCEPT ![t.frame] = IF r.q # hq_output THEN "out_q"
                                                     ELSE "out_rejected"]
                /\ hq_worker' = Step(hq_worker, t, {[pc |-> "check", frame |-> 0]})
    /\ UNCHANGED <<envVars, restVars, next_frame, hq_input, hq_running, hq_session, vsbVars>>

\* websocket_stream: accept(), frame_count = 0
HqConnect ==
    /\ app = "hq"
    /\ BagCardinality(hq_session) < MaxSessions
    /\ hq_session' = Spawn(hq_session, [pc |-> "loop", frame_count |-> 0,
                                        frame |-> None])
    /\ UNCHANGED <<envVars, restVars, histVars, hq_input, hq_output, hq_running, hq_stats,
                   hq_worker, vsbVars>>

\* one delivery cycle up to its first await: frame = get_frame(); with a frame
\* the coroutine goes on to send_json, with None straight to asyncio.sleep
HqSessionGet(c) ==
    /\ app = "hq"
    /\ c.pc = "loop"
    /\ LET r == get_frame(hq_output)
       IN  IF cycle_sends(hq_output)
           THEN /\ hq_session' = Step(hq_session, c,
                                      {[c EXCEPT !.pc = "send", !.frame = r.frame]})
                /\ hq_output' = r.q
                /\ fate' = [fate EXCEPT ![r.frame.id] = "taken"]
           ELSE /\ hq_session' = Step(hq_session, c, after_sleep(c))
                /\ UNCHANGED <<hq_output, fate>>
    /\ UNCHANGED <<envVars, restVars, next_frame, hq_input, hq_running, hq_stats, hq_worker,
                   vsbVars>>

\* send_json returned (frame_count += 1, stats['sent'] = frame_count, then the
\* sleep) or raised (`except Exception` ends the session)
HqSessionSend(c, raised) ==
    /\ app = "hq"
    /\ c.pc = "send"
    /\ IF raised
       THEN /\ hq_session' = Exit(hq_session, c)
            /\ UNCHANGED hq_stats
       ELSE LET r == session_sent(hq_stats, c.frame_count)
            IN  /\ hq_session' = Step(hq_session, c,
                       after_sleep([c EXCEPT !.frame_count = r.frame_count,
                                             !.frame = None]))
                /\ hq_stats' = r.stats
    /\ UNCHANGED <<envVars, restVars, histVars, hq_input, hq_output, hq_running, hq_worker,
                   vsbVars>>

NextHQ ==
    \/ HqAddFrame
    \/ HqStart
    \/ HqStop
    \/ \E t \in BagToSet(hq_worker) : HqWorkerCheck(t)
    \/ \E t \in BagToSet(hq_worker) : HqWorkerGet(t)
    \/ \E t \in BagToSet(hq_worker), raised \in BOOLEAN : HqWorkerFinish(t, raised)
    \/ HqConnect
    \/ \E c \in BagToSet(hq_session) : HqSessionGet(c)
    \/ \E c \in BagToSet(hq_session), raised \in BOOLEAN : HqSessionSend(c, raised)

\* the state after the modules' top-level code: frame_processor and
\* video_buffer constructed, nothing started
InitFields ==
    /\ next_frame = 1
    /\ fate = [f \in Frames |-> "none"]
    /\ hq_input = <<>>
    /\ hq_output = <<>>
    /\ hq_running = FALSE
    /\ hq_stats = InitStats
    /\ hq_worker = EmptyBag
    /\ hq_session = EmptyBag
    /\ vsb_input = <<>>
    /\ vsb_output = <<>>
    /\ vsb_running = FALSE
    /\ vsb_frame_count = 0
    /\ vsb_last_frame = None
    /\ vsb_worker = EmptyBag
    /\ ws_state = [c \in Clients |-> "new"]
    /\ websocket_clients = {}
    /\ run_track = [t \in Tracks |-> Idle]
    /\ pcs = {}
    /\ data_channel = [t \in Tracks |-> "none"]
    /\ udp_pc = "recv"
    /\ udp_addr = 0
    /\ udp_frame_count = 0
    /\ udp_request = NoRequest
    /\ udp_sent = <<>>
    /\ udp_bad = 0
    /\ now = StartTime
    /\ detections = <<>>
    /\ last_detection_time = 0
    /\ snapshot = <<>>
    /\ stored = <<>>
    /\ cache_lock = "free"
    /\ writer_pc = "idle"
    /\ torn_read = FALSE
    /\ last_upload = NoUpload
    /\ model = 0
    /\ model_lock = "free"
    /\ loader = [k \in Callers |-> [pc |-> "idle", got |-> 0, calls |-> 0]]
    /\ loads = 0
    /\ vsb_lock = "free"
    /\ vsb_thread = [th \in LockThreads |-> [pc |-> "idle", frame |-> 0,
                                             processed_count |-> 0]]
    /\ captured = 0
    /\ img_b64 = 0
    /\ post_thread = EmptyBag
    /\ appended = <<>>
    /\ vc_running = FALSE
    /\ det_loop = EmptyBag
    /\ detection_in_progress = FALSE
    /\ in_flight = 0
    /\ rx_stream = <<>>
    /\ bytes_data = <<>>
    /\ rx_jpgs = <<>>

InitHQ ==
    /\ app = "hq"
    /\ asyncio_bound \in BOOLEAN
    /\ InitFields

SpecHQ == InitHQ /\ [][NextHQ]_vars

\* the processor as hq_stream_server itself drives it: start() at startup and
\* no stop(), so one process_worker thread
NextHQStarted ==
    \/ HqAddFrame
    \/ HqStart
    \/ \E t \in BagToSet(hq_worker) : HqWorkerCheck(t)
    \/ \E t \in BagToSet(hq_worker) : HqWorkerGet(t)
    \/ \E t \in BagToSet(hq_worker), raised \in BOOLEAN : HqWorkerFinish(t, raised)
    \/ HqConnect
    \/ \E c \in BagToSet(hq_session) : HqSessionGet(c)
    \/ \E c \in BagToSet(hq_session), raised \in BOOLEAN : HqSessionSend(c, raised)

SpecHQStarted == InitHQ /\ [][NextHQStarted]_vars

\* --------------------------------------------------- VideoStreamBuffer
\* add_frame(frame): with the lock, input_queue.append(frame); frame_count += 1
vsb_add_frame(q, frame_count, f) ==
    LET r == deque_append(q, f, MaxSize)
    IN  [q |-> r.q, evicted |-> r.evicted, frame_count |-> frame_count + 1]

\* get_processed_frame(): with the lock, output_queue.popleft() if there is one,
\* else last_frame
get_processed_frame(out, last) ==
    IF Len(out) > 0
    THEN [frame |-> Head(out), q |-> Tail(out)]
    ELSE [frame |-> last, q |-> out]

\* process_frames, "# 添加到输出队列": with the lock, output_queue.append(
\* annotated_frame); last_frame = annotated_frame; processed_count += 1
vsb_worker_put(out, last, t) ==
    LET r == deque_append(out, Copy(t.frame), MaxSize)
    IN  [q |-> r.q, evicted |-> r.evicted, last |-> Copy(t.frame),
         t |-> [t EXCEPT !.pc = "check", !.frame = 0,
                         !.processed_count = @ + 1]]

\* process_frames, `except Exception`: with the lock,
\* output_queue.append(frame), the frame as it was submitted
vsb_worker_except(out, last, t) ==
    LET r == deque_append(out, Orig(t.frame), MaxSize)
    IN  [q |-> r.q, evicted |-> r.evicted, last |-> last,
         t |-> [t EXCEPT !.pc = "check", !.frame = 0]]

\* `while self.running:` the thread goes on to the dequeue, or returns
vsb_while(t, running) == IF running THEN {[t EXCEPT !.pc = "get"]} ELSE {}

\* the frames a deque append pushed out get the fate `how`
Evict(ft, evicted, how) ==
    [f \in Frames |-> IF \E i \in 1..Len(evicted) : evicted[i] = f THEN how ELSE ft[f]]

\* upload_frame (/upload_frame): try: decode; video_buffer.add_frame(frame);
\* return {"status": "ok", "queue_size": ...}; except Exception: return
\* {"status": "error", ...}. Of the response the status is kept.
vsb_upload_frame(payload, q, frame_count, f) ==
    IF decode(payload)
    THEN LET r == vsb_add_frame(q, frame_count, f)
         IN  [q |-> r.q, evicted |-> r.evicted, frame_count |-> r.frame_count,
              response |-> "ok"]
    ELSE [q |-> q, evicted |-> <<>>, frame_count |-> frame_count,
          response |-> "error"]

VsbUploadFrame(payload) ==
    /\ app = "vsb"
    /\ decode(payload) => next_frame <= MaxFrames
    /\ payload # "image" => last_upload.bad < MaxBad
    /\ LET f == next_frame
           r == vsb_upload_frame(payload, vsb_input, vsb_frame_count, f)
       IN  /\ vsb_input' = r.q
           /\ vsb_frame_count' = r.frame_count
           /\ last_upload' = Uploaded(last_upload, payload, r.response)
           /\ IF decode(payload)
              THEN /\ fate' = [Evict(fate, r.evicted, "in_evicted") EXCEPT ![f] =
                                  IF \E i \in 1..Len(r.q) : r.q[i] = f THEN "in_q"
                                  ELSE "in_rejected"]
                   /\ next_frame' = next_frame + 1
              ELSE UNCHANGED <<fate, next_frame>>
    /\ UNCHANGED <<envVars, wsVars, udpVars, cacheVars, loadVars, auxVars, hqVars, vsb_output,
                   vsb_running, vsb_last_frame, vsb_worker>>

\* /upload_frame with a decodable image
VsbAddFrame == VsbUploadFrame("image")

\* start(): if not running, set running and spawn a process_frames thread
\* (processed_count = 0)
VsbStart ==
    /\ app = "vsb"
    /\ IF vsb_running
       THEN UNCHANGED <<vsb_running, vsb_worker>>
       ELSE /\ BagCardinality(vsb_worker) < MaxWorkers
            /\ vsb_worker' = Spawn(vsb_worker, [pc |-> "check", frame |-> 0,
                                                processed_count |-> 0])
            /\ vsb_running' = TRUE
    /\ UNCHANGED <<envVars, restVars, histVars, hqVars, vsb_input, vsb_output, vsb_frame_count,
                   vsb_last_frame>>

\* stop()
VsbStop ==
    /\ app = "vsb"
    /\ vsb_running' = FALSE
    /\ UNCHANGED <<envVars, restVars, histVars, hqVars, vsb_input, vsb_output, vsb_frame_count,
                   vsb_last_frame, vsb_worker>>

\* `while self.running:`
VsbWorkerCheck(t) ==
    /\ app = "vsb"
    /\ t.pc = "check"
    /\ vsb_worker' = Step(vsb_worker, t, vsb_while(t, vsb_running))
    /\ UNCHANGED <<envVars, restVars, histVars, hqVars, vsb_input, vsb_output, vsb_running,
                   vsb_frame_count, vsb_last_frame>>

\* with the lock: popleft if the input queue holds a frame; with none,
\* sleep(0.01) and `continue`
VsbWorkerGet(t) ==
    /\ app = "vsb"
    /\ t.pc = "get"
    /\ IF Len(vsb_input) > 0
       THEN /\ vsb_worker' = Step(vsb_worker, t,
                                  {[t EXCEPT !.pc = "busy", !.frame = Head(vsb_input)]})
            /\ vsb_input' = Tail(vsb_input)
            /\ fate' = [fate EXCEPT ![Head(vsb_input)] = "held"]
       ELSE /\ vsb_worker' = Step(vsb_worker, t, {[t EXCEPT !.pc = "check"]})
            /\ UNCHANGED <<vsb_input, fate>>
    /\ UNCHANGED <<envVars, restVars, next_frame, hqVars, vsb_output, vsb_running,
                   vsb_frame_count, vsb_last_frame>>

\* the try block, run without the lock (model(frame), frame.copy(), the
\* drawing), and what follows it with the lock.  `raised`: the model, the copy
\* or the drawing raised
VsbWorkerFinish(t, raised) ==
    /\ app = "vsb"
    /\ t.pc = "busy"
    /\ LET r == IF raised THEN vsb_worker_except(vsb_output, vsb_last_frame, t)
                ELSE vsb_worker_put(vsb_output, vsb_last_frame, t)
       IN  /\ vsb_output' = r.q
           /\ vsb_last_frame' = r.last
           /\ vsb_worker' = Step(vsb_worker, t, {r.t})
           /\ fate' = [Evict(fate, [i \in 1..Len(r.evicted) |-> r.evicted[i].id],
                             "out_evicted") EXCEPT ![t.frame] =
                          IF \E i \in 1..Len(r.q) : r.q[i].id = t.frame THEN "out_q"
                          ELSE "out_rejected"]
    /\ UNCHANGED <<envVars, restVars, next_frame, hqVars, vsb_input, vsb_running,
                   vsb_frame_count>>

\* the "Waiting for frames..." image generate() draws when it has no frame
Placeholder == [id |-> 0, buf |-> "placeholder"]

\* one cycle of video_stream's generate(): frame = get_processed_frame(); the
\* chunk it yields is that frame as JPEG, or the placeholder when frame is None
generate_chunk(out, last) ==
    LET r == get_processed_frame(out, last)
    IN  IF r.frame # None THEN r.frame ELSE Placeholder

\* a consumer's call of get_processed_frame (video_stream's generate loop)
VsbGetProcessedFrame ==
    /\ app = "vsb"
    /\ LET r == get_processed_frame(vsb_output, vsb_last_frame)
           chunk == generate_chunk(vsb_output, vsb_last_frame)
       IN  /\ vsb_output' = r.q
           /\ fate' = IF r.q # vsb_output
                      THEN [fate EXCEPT ![chunk.id] = "taken"]
                      ELSE fate
    /\ UNCHANGED <<envVars, restVars, next_frame, hqVars, vsb_input, vsb_running,
                   vsb_frame_count, vsb_last_frame, vsb_worker>>

NextVSB ==
    \/ VsbAddFrame
    \/ VsbStart
    \/ VsbStop
    \/ \E t \in BagToSet(vsb_worker) : VsbWorkerCheck(t)
    \/ \E t \in BagToSet(vsb_worker) : VsbWorkerGet(t)
    \/ \E t \in BagToSet(vsb_worker), raised \in BOOLEAN : VsbWorkerFinish(t, raised)
    \/ VsbGetProcessedFrame

\* stream_server never touches asyncio
InitVSB ==
    /\ app = "vsb"
    /\ asyncio_bound = FALSE
    /\ InitFields

SpecVSB == InitVSB /\ [][NextVSB]_vars

\* ------------------------------------------------------------ server.py
\* run_track's `except Exception` around its `while True`: the coroutine ends
Ended(t, cause) == [Idle EXCEPT !.pc = "dead", !.frame_count = t.frame_count,
                                !.cause = cause,
                                !.message_queue = t.message_queue,
                                !.queue_flushed = t.queue_flushed]

\* the coroutine is back at `await track.recv()`, the broadcast's locals gone
AtRecv(t) == [Idle EXCEPT !.pc = "recv", !.frame_count = t.frame_count,
                          !.message_queue = t.message_queue,
                          !.queue_flushed = t.queue_flushed]

\* try_flush_queue(): nothing once queue_flushed is set; else, when the channel
\* is open and the queue is not empty, set queue_flushed and pop and send every
\* queued message (a failing send is printed)
try_flush_queue(t, readyState) ==
    IF t.queue_flushed
    THEN t
    ELSE IF readyState = "open" /\ Len(t.message_queue) > 0
         THEN [t EXCEPT !.queue_flushed = TRUE, !.message_queue = <<>>]
         ELSE t

\* run_track after the broadcast, `if data_channel:` (the channel object, always
\* true): try_flush_queue(); then send the message if readyState is "open",
\* else message_queue.append(message).  A message is named by its frame number
channel_send(t, readyState) ==
    LET f == try_flush_queue(t, readyState)
    IN  IF readyState = "open"
        THEN f
        ELSE [f EXCEPT !.message_queue = Append(@, t.frame_count)]

\* set.discard that removes nothing
discard_nothing(s, c) == s

\* websocket_clients.discard(websocket)
discard(s, c) == s \ {c}

\* `for client in websocket_clients:` asks the set iterator for the next
\* client.  The iterator raises RuntimeError (Set changed size during
\* iteration) when the set's size differs from the size it had when the
\* iterator was made; the statement is outside the loop's try, so the error
\* leaves broadcast_detection_result and lands in run_track's except.
\* Otherwise the loop ends or goes on with a client not yet visited, in no
\* particular order
for_next(t, clients) ==
    IF Cardinality(clients) # t.size
    THEN {Ended(t, "RuntimeError")}
    ELSE IF t.todo = {}
         THEN {[t EXCEPT !.pc = "return"]}
         ELSE {[t EXCEPT !.pc = "send", !.cur = c, !.todo = @ \ {c}] : c \in t.todo}

\* `await client.send_text(message)` raises when the peer is gone
send_text_raises(c) == ws_state[c] # "open"

\* the entries that left the set are skipped by every iterator over it
Skip(tracks, gone) == [t \in Tracks |-> [tracks[t] EXCEPT !.todo = @ \ gone]]

\* websocket_endpoint: accept(), websocket_clients.add(websocket).  An iterator
\* over the set may or may not come across the new entry (`joins`: the
\* broadcasts that will)
WsConnect(c, joins) ==
    /\ app = "ws"
    /\ ws_state[c] = "new"
    /\ \A d \in Clients : d < c => ws_state[d] # "new"
    /\ \A t \in joins : run_track[t].pc = "send"
    /\ ws_state' = [ws_state EXCEPT ![c] = "open"]
    /\ websocket_clients' = websocket_clients \cup {c}
    /\ run_track' = [t \in Tracks |->
                        IF t \in joins
                        THEN [run_track[t] EXCEPT !.todo = @ \cup {c}]
                        ELSE run_track[t]]
    /\ UNCHANGED <<envVars, streamVars, udpVars, cacheVars, pcs, data_channel>>

\* the consumer goes away: sends to it raise from now on, and its handler's
\* receive_text will raise
WsPeerGone(c) ==
    /\ app = "ws"
    /\ ws_state[c] = "open"
    /\ ws_state' = [ws_state EXCEPT ![c] = "broken"]
    /\ UNCHANGED <<envVars, streamVars, udpVars, cacheVars, websocket_clients, run_track,
                   pcs, data_channel>>

\* websocket_endpoint: receive_text raised; finally: websocket_clients.discard
WsHandlerExit(c) ==
    /\ app = "ws"
    /\ ws_state[c] = "broken"
    /\ ws_state' = [ws_state EXCEPT ![c] = "gone"]
    /\ websocket_clients' = discard(websocket_clients, c)
    /\ run_track' = Skip(run_track, {c})
    /\ UNCHANGED <<envVars, streamVars, udpVars, cacheVars, pcs, data_channel>>

\* /offer: pcs.add(pc), createDataChannel, message_queue = [], queue_flushed =
\* [False]; then on_track: asyncio.ensure_future(run_track())
OnTrack(t) ==
    /\ app = "ws"
    /\ run_track[t].pc = "idle"
    /\ \A u \in Tracks : u < t => run_track[u].pc # "idle"
    /\ pcs' = pcs \cup {t}
    /\ data_channel' = [data_channel EXCEPT ![t] = "connecting"]
    /\ run_track' = [run_track EXCEPT ![t] = AtRecv(Idle)]
    /\ UNCHANGED <<envVars, streamVars, udpVars, cacheVars, ws_state, websocket_clients>>

\* the peer completes the data channel: readyState becomes "open"
ChannelOpens(t) ==
    /\ app = "ws"
    /\ data_channel[t] = "connecting"
    /\ data_channel' = [data_channel EXCEPT ![t] = "open"]
    /\ UNCHANGED <<envVars, streamVars, udpVars, cacheVars, ws_state, websocket_clients,
                   run_track, pcs>>

\* the peer connection closes or fails, and its data channel with it;
\* on_connectionstatechange prints the state
ConnectionCloses(t) ==
    /\ app = "ws"
    /\ data_channel[t] \in {"connecting", "open"}
    /\ data_channel' = [data_channel EXCEPT ![t] = "closed"]
    /\ UNCHANGED <<envVars, streamVars, udpVars, cacheVars, ws_state, websocket_clients,
                   run_track, pcs>>

\* on_shutdown: pc.close() for every pc in pcs, gathered; pcs itself is left
\* as it is
OnShutdown ==
    /\ app = "ws"
    /\ pcs # {}
    /\ data_channel' = [t \in Tracks |-> IF t \in pcs THEN "closed"
                                         ELSE data_channel[t]]
    /\ UNCHANGED <<envVars, streamVars, udpVars, cacheVars, ws_state, websocket_clients,
                   run_track, pcs>>

\* `frame = await track.recv()` raised (the track ended): run_track's except
TrackEnds(t) ==
    /\ app = "ws"
    /\ run_track[t].pc = "recv"
    /\ run_track' = [run_track EXCEPT ![t] = Ended(run_track[t], "track")]
    /\ UNCHANGED <<envVars, streamVars, udpVars, cacheVars, ws_state, websocket_clients,
                   pcs, data_channel>>

\* `frame = await track.recv()` returned: frame_count[0] += 1 and, on every
\* fifth frame, the detection and the call of broadcast_detection_result up to
\* its first await: return at once on an empty set, else message, disconnected
\* = set(), the iterator and the first send_text.  When the broadcast returns
\* at once the data-channel part follows in the same step
TrackRecv(t) ==
    /\ app = "ws"
    /\ run_track[t].pc = "recv"
    /\ run_track[t].frame_count < MaxTrackFrames
    /\ LET r == [run_track[t] EXCEPT !.frame_count = @ + 1]
           b == [r EXCEPT !.size = Cardinality(websocket_clients),
                          !.snap = websocket_clients,
                          !.todo = websocket_clients]
       IN  IF r.frame_count % DetectEvery # 0
           THEN run_track' = [run_track EXCEPT ![t] = r]
           ELSE IF websocket_clients = {}
                THEN run_track' = [run_track EXCEPT ![t] =
                                      channel_send(r, data_channel[t])]
                ELSE \E n \in for_next(b, websocket_clients) :
                         run_track' = [run_track EXCEPT ![t] = n]
    /\ UNCHANGED <<envVars, streamVars, udpVars, cacheVars, ws_state, websocket_clients,
                   pcs, data_channel>>

\* the send_text the broadcast was awaiting is over (on an exception the client
\* goes into `disconnected`), and the `for` statement goes on: the next
\* send_text; or the end of the loop, the discard of every client in
\* `disconnected`, the return to run_track and its data-channel part; or the
\* iterator's RuntimeError
TrackSendDone(t) ==
    /\ app = "ws"
    /\ run_track[t].pc = "send"
    /\ LET r == run_track[t]
           s == [r EXCEPT !.done = @ \cup {r.cur},
                          !.failed = IF send_text_raises(r.cur)
                                     THEN @ \cup {r.cur} ELSE @]
       IN  \E n \in for_next(s, websocket_clients) :
               IF n.pc = "return"
               THEN /\ websocket_clients' = websocket_clients \ s.failed
                    /\ run_track' = [Skip(run_track, s.failed) EXCEPT ![t] =
                                        AtRecv(channel_send(s, data_channel[t]))]
               ELSE /\ run_track' = [run_track EXCEPT ![t] = n]
                    /\ UNCHANGED websocket_clients
    /\ UNCHANGED <<envVars, streamVars, udpVars, cacheVars, ws_state, pcs, data_channel>>

NextWS ==
    \/ \E c \in Clients, joins \in SUBSET Tracks : WsConnect(c, joins)
    \/ \E c \in Clients : WsPeerGone(c)
    \/ \E c \in Clients : WsHandlerExit(c)
    \/ \E t \in Tracks : OnTrack(t)
    \/ \E t \in Tracks : TrackEnds(t)
    \/ \E t \in Tracks : TrackRecv(t)
    \/ \E t \in Tracks : TrackSendDone(t)

InitWS ==
    /\ app = "ws"
    /\ asyncio_bound = TRUE
    /\ InitFields

\* server.py with peers whose data channel never gets past "connecting"
SpecWS == InitWS /\ [][NextWS]_vars

\* server.py with peers whose data channels open and whose connections close
NextOffer ==
    \/ NextWS
    \/ \E t \in Tracks : ChannelOpens(t)
    \/ \E t \in Tracks : ConnectionCloses(t)
    \/ OnShutdown

SpecOffer == InitWS /\ [][NextOffer]_vars

\* -------------------------------------------------------- udp_server.py
\* the datagrams a sender can send.  kind: how far the decoding gets (json.loads,
\* b64decode, Image.open, or all the way to an image of w x h); det: what the
\* detector does with the image (no model loaded, raises, or finds n objects);
\* size: the length in bytes of json.dumps of run_detection's result, short
\* when the result lists no detection
UdpRequests ==
    [from : Senders, kind : {"bad_json", "bad_base64", "bad_image"}, w : {0},
     h : {0}, det : {"none"}, n : {0}, size : {0}]
    \cup [from : Senders, kind : {"image"}, w : Dims, h : Dims,
          det : {"no_model", "raises", "ok"}, n : {0}, size : {DatagramLimit - 1}]
    \cup [from : Senders, kind : {"image"}, w : Dims, h : Dims, det : {"ok"},
          n : 1..MaxDet,
          size : {DatagramLimit - 1, DatagramLimit, DatagramLimit + 1}]

\* run_detection(frame_array): the result dict.  error: the "error" key, ""
\* when absent; count: the "count" key, <<>> when absent
run_detection(req) ==
    [detections |-> IF req.det = "ok" THEN DetList(req.n) ELSE <<>>,
     w |-> req.w, h |-> req.h,
     error |-> IF req.det = "raises" THEN "detect" ELSE "",
     count |-> <<>>]

\* "# 结果太大，只发送检测数量": simple_result
simple_result(result) ==
    [detections |-> <<>>, w |-> result.w, h |-> result.h, error |-> "",
     count |-> <<Len(result.detections)>>]

\* a server that still sends the full result when it is exactly 65000 bytes
reply_le(req) ==
    IF req.size <= DatagramLimit
    THEN run_detection(req)
    ELSE simple_result(run_detection(req))

\* the body sent for a decoded image: the full result when its serialization
\* is shorter than 65000 bytes, else simple_result
reply(req) ==
    IF req.size < DatagramLimit
    THEN run_detection(req)
    ELSE simple_result(run_detection(req))

\* the except handler's error_response
error_response ==
    [detections |-> <<>>, w |-> 0, h |-> 0, error |-> "request", count |-> <<>>]

\* the try block after recvfrom returned req: it raises in the decoding, or
\* sends one datagram to addr
udp_try(req) ==
    IF req.kind = "image"
    THEN [raised |-> FALSE, sent |-> <<[to |-> req.from, body |-> reply(req)]>>]
    ELSE [raised |-> TRUE, sent |-> <<>>]

\* an except handler that only prints
udp_except_silent(addr) == [sent |-> <<>>, pc |-> "recv"]

\* an except handler outside the loop
udp_except_exit(addr) ==
    [sent |-> IF addr = 0 THEN <<>> ELSE <<[to |-> addr, body |-> error_response]>>,
     pc |-> "done"]

\* `except Exception as e:` inside `while True`: sendto(error_response, addr),
\* itself in a try with a bare except (addr unbound raises NameError there), and
\* the loop goes on
udp_except(addr) ==
    [sent |-> IF addr = 0 THEN <<>> ELSE <<[to |-> addr, body |-> error_response]>>,
     pc |-> "recv"]

\* one iteration in which recvfrom returns the datagram req
UdpDatagram(req) ==
    /\ app = "udp"
    /\ udp_pc = "recv"
    /\ udp_frame_count < MaxDatagrams
    /\ udp_addr' = req.from
    /\ udp_frame_count' = udp_frame_count + 1
    /\ udp_request' = req
    /\ LET r == udp_try(req)
           e == udp_except(req.from)
       IN  IF r.raised
           THEN udp_sent' = r.sent \o e.sent /\ udp_pc' = e.pc
           ELSE udp_sent' = r.sent /\ udp_pc' = udp_pc
    /\ udp_bad' = IF req.kind # "image" \/ req.det = "raises"
                  THEN udp_bad + 1 ELSE udp_bad
    /\ UNCHANGED <<envVars, streamVars, wsVars, cacheVars>>

\* one iteration in which recvfrom raises: addr keeps what an earlier iteration
\* bound it to
UdpRecvFails ==
    /\ app = "udp"
    /\ udp_pc = "recv"
    /\ udp_request' = NoRequest
    /\ LET e == udp_except(udp_addr)
       IN  udp_sent' = e.sent /\ udp_pc' = e.pc
    /\ UNCHANGED <<envVars, streamVars, wsVars, cacheVars, udp_addr,
                   udp_frame_count, udp_bad>>

NextUDP ==
    \/ \E req \in UdpRequests : UdpDatagram(req)
    \/ UdpRecvFails

InitUDP ==
    /\ app = "udp"
    /\ asyncio_bound = FALSE
    /\ InitFields

SpecUDP == InitUDP /\ [][NextUDP]_vars

\* ------------------------------------------- client.py, detector.py
\* a read that expires the cache already at 2.0 s
read_cache_ge(dets, last, t) ==
    LET d == IF t - last >= ExpireTicks THEN <<>> ELSE dets
    IN  [detections |-> d, snapshot |-> d]

\* a read that hands the list over and leaves the cache empty
read_cache_take(dets, last, t) ==
    LET d == IF t - last > ExpireTicks THEN <<>> ELSE dets
    IN  [detections |-> <<>>, snapshot |-> d]

\* detection_loop (update_display in detector.py), with the lock: if
\* time.time() - last_detection_time > 2.0 then detections = []; then
\* detections_snapshot = detections.copy()
read_cache(dets, last, t) ==
    LET d == IF t - last > ExpireTicks THEN <<>> ELSE dets
    IN  [detections |-> d, snapshot |-> d]

\* a with-statement that does not wait for the lock
lock_free_always(l) == TRUE

\* with self.lock: the block is entered only while no other thread holds it
lock_free(l) == l = "free"

\* time passes
Tick ==
    /\ app = "client"
    /\ now < StartTime + MaxElapsed
    /\ now' = now + 1
    /\ UNCHANGED <<envVars, streamVars, wsVars, udpVars, detections,
                   last_detection_time, snapshot, stored, cache_lock, writer_pc,
                   torn_read>>

\* async_detection (detection_thread in detector.py) takes the lock and stores
\* detections = the n detections received
CacheUpdate(n) ==
    /\ app = "client"
    /\ writer_pc = "idle"
    /\ lock_free(cache_lock)
    /\ cache_lock' = "writer"
    /\ writer_pc' = "time"
    /\ detections' = DetList(n)
    /\ stored' = DetList(n)
    /\ UNCHANGED <<envVars, streamVars, wsVars, udpVars, now, last_detection_time,
                   snapshot, torn_read>>

\* ... then stores last_detection_time = time.time() and leaves the with-block
CacheUpdateTime ==
    /\ app = "client"
    /\ writer_pc = "time"
    /\ last_detection_time' = now
    /\ cache_lock' = "free"
    /\ writer_pc' = "idle"
    /\ UNCHANGED <<envVars, streamVars, wsVars, udpVars, now, detections, snapshot,
                   stored, torn_read>>

\* the display loop's read, one with-block
CacheRead ==
    /\ app = "client"
    /\ lock_free(cache_lock)
    /\ LET r == read_cache(detections, last_detection_time, now)
       IN  detections' = r.detections /\ snapshot' = r.snapshot
    /\ torn_read' = (torn_read \/ writer_pc = "time")
    /\ UNCHANGED <<envVars, streamVars, wsVars, udpVars, now, last_detection_time,
                   stored, cache_lock, writer_pc>>

NextClient ==
    \/ Tick
    \/ \E n \in 0..MaxDet : CacheUpdate(n)
    \/ CacheUpdateTime
    \/ CacheRead

InitClient ==
    /\ app = "client"
    /\ asyncio_bound = FALSE
    /\ InitFields

SpecClient == InitClient /\ [][NextClient]_vars

\* ------------------------------------------------------- load_model
\* a check that never finds a model
already_loaded_never(m) == FALSE

\* `if _model is not None:`
already_loaded(m) == m # 0

\* load_model(): `with _model_lock:`, then `if _model is not None: return
\* _model`; otherwise the thread starts loading, still holding the lock
LoadModelEnter(k) ==
    /\ app = "load"
    /\ loader[k].pc = "idle"
    /\ loader[k].calls < MaxCalls
    /\ lock_free(model_lock)
    /\ IF already_loaded(model)
       THEN /\ loader' = [loader EXCEPT ![k] = [pc |-> "done", got |-> model,
                                                calls |-> @.calls + 1]]
            /\ UNCHANGED model_lock
       ELSE /\ loader' = [loader EXCEPT ![k] = [pc |-> "loading", got |-> 0,
                                                calls |-> @.calls + 1]]
            /\ model_lock' = "held"
    /\ UNCHANGED <<envVars, histVars, hqVars, vsbVars, ingestVars, auxVars, wsVars, udpVars,
                   cacheVars, model, loads>>

\* the load itself: ultralytics YOLO(path) and, failing that, torch.hub.load;
\* `loaded` when one of them made a model, else _model = None; return _model
\* and leave the with-block
LoadModelFinish(k, loaded) ==
    /\ app = "load"
    /\ loader[k].pc = "loading"
    /\ LET m == IF loaded THEN loads + 1 ELSE 0
       IN  /\ model' = m
           /\ loads' = IF loaded THEN loads + 1 ELSE loads
           /\ loader' = [loader EXCEPT ![k].pc = "done", ![k].got = m]
    /\ model_lock' = "free"
    /\ UNCHANGED <<envVars, histVars, hqVars, vsbVars, ingestVars, auxVars, wsVars, udpVars,
                   cacheVars>>

\* the thread has used the value and is about to call load_model again
LoadModelAgain(k) ==
    /\ app = "load"
    /\ loader[k].pc = "done"
    /\ loader' = [loader EXCEPT ![k].pc = "idle"]
    /\ UNCHANGED <<envVars, histVars, hqVars, vsbVars, ingestVars, auxVars, wsVars, udpVars,
                   cacheVars, model, model_lock, loads>>

NextLoad ==
    \/ \E k \in Callers : LoadModelEnter(k)
    \/ \E k \in Callers, loaded \in BOOLEAN : LoadModelFinish(k, loaded)
    \/ \E k \in Callers : LoadModelAgain(k)

InitLoad ==
    /\ app = "load"
    /\ asyncio_bound = FALSE
    /\ InitFields

SpecLoad == InitLoad /\ [][NextLoad]_vars

\* ------------------------------- VideoStreamBuffer, statement by statement
\* a with-block whose end leaves the lock with its thread
release_skipped(th) == th

\* the end of a `with self.lock:` block
release(th) == "free"

\* what the lock specification leaves alone
lockRest == <<envVars, fate, hqVars, vsb_worker, wsVars, udpVars, cacheVars,
              ingestVars, loadVars, upVars, vcVars, rxVars>>

\* `with self.lock:` in add_frame, get_processed_frame and process_frames: the
\* thread waits until the lock is free and takes it
LockAcquire(th) ==
    /\ app = "lock"
    /\ vsb_thread[th].pc \in {"add", "get", "in", "out", "exc"}
    /\ vsb_lock # th
    /\ lock_free(vsb_lock)
    /\ vsb_lock' = th
    /\ UNCHANGED <<lockRest, next_frame, vsb_input, vsb_output, vsb_running,
                   vsb_frame_count, vsb_last_frame, vsb_thread>>

\* start(): running = True and the process_frames thread, which goes to its
\* first `with self.lock:`
LockStart ==
    /\ app = "lock"
    /\ ~vsb_running
    /\ vsb_running' = TRUE
    /\ vsb_thread' = [vsb_thread EXCEPT !["worker"].pc = "in"]
    /\ UNCHANGED <<lockRest, next_frame, vsb_input, vsb_output, vsb_frame_count,
                   vsb_last_frame, vsb_lock>>

\* /upload_frame is called: the handler starts decoding the payload
LockUploadBegin ==
    /\ app = "lock"
    /\ vsb_thread["upload"].pc = "idle"
    /\ next_frame <= MaxFrames
    /\ vsb_thread' = [vsb_thread EXCEPT !["upload"].pc = "decode"]
    /\ UNCHANGED <<lockRest, next_frame, vsb_input, vsb_output, vsb_running,
                   vsb_frame_count, vsb_last_frame, vsb_lock>>

\* the decode is over: on a frame the handler calls add_frame, on an
\* exception it returns the error
LockUploadDecoded(payload) ==
    /\ app = "lock"
    /\ vsb_thread["upload"].pc = "decode"
    /\ IF decode(payload)
       THEN /\ vsb_thread' = [vsb_thread EXCEPT !["upload"].pc = "add",
                                                !["upload"].frame = next_frame]
            /\ next_frame' = next_frame + 1
       ELSE /\ vsb_thread' = [vsb_thread EXCEPT !["upload"].pc = "idle"]
            /\ UNCHANGED next_frame
    /\ UNCHANGED <<lockRest, vsb_input, vsb_output, vsb_running, vsb_frame_count,
                   vsb_last_frame, vsb_lock>>

\* add_frame's with-block, and the handler's return
LockAddFrame ==
    /\ app = "lock"
    /\ vsb_thread["upload"].pc = "add"
    /\ vsb_lock = "upload"
    /\ LET r == vsb_add_frame(vsb_input, vsb_frame_count, vsb_thread["upload"].frame)
       IN  /\ vsb_input' = r.q
           /\ vsb_frame_count' = r.frame_count
    /\ vsb_lock' = release("upload")
    /\ vsb_thread' = [vsb_thread EXCEPT !["upload"].pc = "idle",
                                        !["upload"].frame = 0]
    /\ UNCHANGED <<lockRest, next_frame, vsb_output, vsb_running, vsb_last_frame>>

\* process_frames' first with-block: popleft if the input queue holds a frame;
\* then on to the try block, or to sleep(0.01)
LockWorkerTake ==
    /\ app = "lock"
    /\ vsb_thread["worker"].pc = "in"
    /\ vsb_lock = "worker"
    /\ IF Len(vsb_input) > 0
       THEN /\ vsb_input' = Tail(vsb_input)
            /\ vsb_thread' = [vsb_thread EXCEPT !["worker"].pc = "detect",
                                                !["worker"].frame = Head(vsb_input)]
       ELSE /\ vsb_thread' = [vsb_thread EXCEPT !["worker"].pc = "sleep"]
            /\ UNCHANGED vsb_input
    /\ vsb_lock' = release("worker")
    /\ UNCHANGED <<lockRest, next_frame, vsb_output, vsb_running, vsb_frame_count,
                   vsb_last_frame>>

\* sleep(0.01) is over; `continue`, `while self.running:`
LockWorkerWakes ==
    /\ app = "lock"
    /\ vsb_thread["worker"].pc = "sleep"
    /\ vsb_thread' = [vsb_thread EXCEPT !["worker"].pc = "in"]
    /\ UNCHANGED <<lockRest, next_frame, vsb_input, vsb_output, vsb_running,
                   vsb_frame_count, vsb_last_frame, vsb_lock>>

\* model(frame), frame.copy() and the drawing are over, or one of them raised
LockDetected(raised) ==
    /\ app = "lock"
    /\ vsb_thread["worker"].pc = "detect"
    /\ vsb_thread' = [vsb_thread EXCEPT !["worker"].pc =
                                            IF raised THEN "exc" ELSE "out"]
    /\ UNCHANGED <<lockRest, next_frame, vsb_input, vsb_output, vsb_running,
                   vsb_frame_count, vsb_last_frame, vsb_lock>>

\* the with-block that appends to the output queue, of the try block or of
\* its except branch; then `while self.running:` and the first with-block
LockWorkerPut ==
    /\ app = "lock"
    /\ vsb_thread["worker"].pc \in {"out", "exc"}
    /\ vsb_lock = "worker"
    /\ LET t == vsb_thread["worker"]
           r == IF t.pc = "exc" THEN vsb_worker_except(vsb_output, vsb_last_frame, t)
                ELSE vsb_worker_put(vsb_output, vsb_last_frame, t)
       IN  /\ vsb_output' = r.q
           /\ vsb_last_frame' = r.last
           /\ vsb_thread' = [vsb_thread EXCEPT !["worker"] = [r.t EXCEPT !.pc = "in"]]
    /\ vsb_lock' = release("worker")
    /\ UNCHANGED <<lockRest, next_frame, vsb_input, vsb_running, vsb_frame_count>>

\* generate() calls get_processed_frame
LockStreamCall ==
    /\ app = "lock"
    /\ vsb_thread["stream"].pc = "idle"
    /\ vsb_thread' = [vsb_thread EXCEPT !["stream"].pc = "get"]
    /\ UNCHANGED <<lockRest, next_frame, vsb_input, vsb_output, vsb_running,
                   vsb_frame_count, vsb_last_frame, vsb_lock>>

\* get_processed_frame's with-block; generate() then encodes and yields
LockStreamGet ==
    /\ app = "lock"
    /\ vsb_thread["stream"].pc = "get"
    /\ vsb_lock = "stream"
    /\ LET r == get_processed_frame(vsb_output, vsb_last_frame)
       IN  /\ vsb_output' = r.q
           /\ vsb_thread' = [vsb_thread EXCEPT !["stream"].pc = "encode",
                                                !["stream"].frame = r.frame.id]
    /\ vsb_lock' = release("stream")
    /\ UNCHANGED <<lockRest, next_frame, vsb_input, vsb_running, vsb_frame_count,
                   vsb_last_frame>>

\* the chunk is yielded and the cycle's sleep is over
LockStreamYield ==
    /\ app = "lock"
    /\ vsb_thread["stream"].pc = "encode"
    /\ vsb_thread' = [vsb_thread EXCEPT !["stream"].pc = "idle",
                                        !["stream"].frame = 0]
    /\ UNCHANGED <<lockRest, next_frame, vsb_input, vsb_output, vsb_running,
                   vsb_frame_count, vsb_last_frame, vsb_lock>>

NextLock ==
    \/ \E th \in LockThreads : LockAcquire(th)
    \/ LockStart
    \/ LockUploadBegin
    \/ \E payload \in Payloads : LockUploadDecoded(payload)
    \/ LockAddFrame
    \/ LockWorkerTake
    \/ LockWorkerWakes
    \/ \E raised \in BOOLEAN : LockDetected(raised)
    \/ LockWorkerPut
    \/ LockStreamCall
    \/ LockStreamGet
    \/ LockStreamYield

InitLock ==
    /\ app = "lock"
    /\ asyncio_bound = FALSE
    /\ InitFields

SpecLock == InitLock /\ [][NextLock]_vars

\* ------------------------------------------ StreamClient.upload_loop
\* what the upload specification leaves alone
upRest == <<coreVars, lockVars, vcVars, rxVars>>

\* the thread's target is `lambda: requests.post(upload_url, json={"image":
\* img_b64}, ...)`: img_b64 is looked up in upload_loop's frame when the lambda
\* runs, so the thread posts what the variable holds then
post_target(own, current) == current

\* one iteration of upload_loop: capture, encode into img_b64, start the
\* thread of this frame
UploadCapture ==
    /\ app = "upload"
    /\ captured < MaxFrames
    /\ captured' = captured + 1
    /\ img_b64' = captured + 1
    /\ post_thread' = Spawn(post_thread, [pc |-> "start", frame |-> captured + 1])
    /\ UNCHANGED <<upRest, appended>>

\* the thread runs its target up to the request: the payload is built
PostBuilds(t) ==
    /\ app = "upload"
    /\ t.pc = "start"
    /\ post_thread' = Step(post_thread, t,
                           {[pc |-> "post", frame |-> post_target(t.frame, img_b64)]})
    /\ UNCHANGED <<upRest, captured, img_b64, appended>>

\* the request reaches /upload_frame, which calls add_frame; the thread ends
PostArrives(t) ==
    /\ app = "upload"
    /\ t.pc = "post"
    /\ appended' = Append(appended, t.frame)
    /\ post_thread' = Exit(post_thread, t)
    /\ UNCHANGED <<upRest, captured, img_b64>>

\* the request fails or times out (timeout=0.3); the thread ends
PostFails(t) ==
    /\ app = "upload"
    /\ t.pc = "post"
    /\ post_thread' = Exit(post_thread, t)
    /\ UNCHANGED <<upRest, captured, img_b64, appended>>

NextUpload ==
    \/ UploadCapture
    \/ \E t \in BagToSet(post_thread) : PostBuilds(t)
    \/ \E t \in BagToSet(post_thread) : PostArrives(t)
    \/ \E t \in BagToSet(post_thread) : PostFails(t)

InitUpload ==
    /\ app = "upload"
    /\ asyncio_bound = FALSE
    /\ InitFields

SpecUpload == InitUpload /\ [][NextUpload]_vars

\* ------------------------------------------- VideoClient's threads
\* what the client specification leaves alone
vcRest == <<coreVars, lockVars, upVars, rxVars>>

\* toggle(): running = not running; when it is now true, start a
\* detection_loop thread (frame_count = 0)
Toggle ==
    /\ app = "vc"
    /\ vc_running' = ~vc_running
    /\ IF ~vc_running
       THEN /\ BagCardinality(det_loop) < MaxLoops
            /\ det_loop' = Spawn(det_loop, [pc |-> "while", frame_count |-> 0])
       ELSE UNCHANGED det_loop
    /\ UNCHANGED <<vcRest, detection_in_progress, in_flight>>

\* `while self.running:` the loop goes on, or ends and the thread with it
LoopWhile(t) ==
    /\ app = "vc"
    /\ t.pc = "while"
    /\ det_loop' = Step(det_loop, t, IF vc_running THEN {[t EXCEPT !.pc = "frame"]}
                                     ELSE {})
    /\ UNCHANGED <<vcRest, vc_running, detection_in_progress, in_flight>>

\* frame_count += 1, the capture, and the test `frame_count % 15 == 0 and not
\* self.detection_in_progress`; when it fails the rest of the iteration (the
\* read of the cache, the display, the sleep) follows
LoopFrame(t) ==
    /\ app = "vc"
    /\ t.pc = "frame"
    /\ t.frame_count < MaxLoopFrames
    /\ LET n == t.frame_count + 1
       IN  det_loop' = Step(det_loop, t,
                {[pc |-> IF n % SendEvery = 0 /\ ~detection_in_progress
                         THEN "set" ELSE "while",
                  frame_count |-> n]})
    /\ UNCHANGED <<vcRest, vc_running, detection_in_progress, in_flight>>

\* self.detection_in_progress = True and the start of the async_detection
\* thread; then the rest of the iteration
LoopSet(t) ==
    /\ app = "vc"
    /\ t.pc = "set"
    /\ in_flight < MaxInFlight
    /\ detection_in_progress' = TRUE
    /\ in_flight' = in_flight + 1
    /\ det_loop' = Step(det_loop, t, {[t EXCEPT !.pc = "while"]})
    /\ UNCHANGED <<vcRest, vc_running>>

\* an async_detection thread ends, with a response, a timeout or an error;
\* finally: self.detection_in_progress = False
AsyncDetectionEnds ==
    /\ app = "vc"
    /\ in_flight > 0
    /\ in_flight' = in_flight - 1
    /\ detection_in_progress' = FALSE
    /\ UNCHANGED <<vcRest, vc_running, det_loop>>

NextVC ==
    \/ Toggle
    \/ \E t \in BagToSet(det_loop) : LoopWhile(t)
    \/ \E t \in BagToSet(det_loop) : LoopFrame(t)
    \/ \E t \in BagToSet(det_loop) : LoopSet(t)
    \/ AsyncDetectionEnds

InitVC ==
    /\ app = "vc"
    /\ asyncio_bound = FALSE
    /\ InitFields

SpecVC == InitVC /\ [][NextVC]_vars

\* ------------------------------- stream_client.py: StreamClient.receive_stream
\* the bytes that matter to the search: 0xff, 0xd8, 0xd9 and any other byte
Bytes == {0, 216, 217, 255}

\* b'\xff\xd8' and b'\xff\xd9'
StartMarker == <<255, 216>>
EndMarker == <<255, 217>>

\* bytes.find(marker): the 0-based index of the first occurrence, or -1
find(buf, marker) ==
    LET hits == {i \in 1..(Len(buf) - 1) : buf[i] = marker[1] /\ buf[i + 1] = marker[2]}
    IN  IF hits = {} THEN -1
        ELSE (CHOOSE i \in hits : \A k \in hits : i <= k) - 1

\* the inner `while True:` a, b = the first start marker and the first end
\* marker of the buffer; with both found and b > a, jpg = bytes_data[a:b+2]
\* and bytes_data = bytes_data[b+2:], and again; else break
RECURSIVE extract_frames(_, _)
extract_frames(buf, jpgs) ==
    LET a == find(buf, StartMarker)
        b == find(buf, EndMarker)
    IN  IF a # -1 /\ b # -1 /\ b > a
        THEN extract_frames(SubSeq(buf, b + 3, Len(buf)),
                            Append(jpgs, SubSeq(buf, a + 1, b + 2)))
        ELSE [bytes_data |-> buf, jpgs |-> jpgs]

\* what the receiver specification leaves alone
rxRest == <<coreVars, lockVars, upVars, vcVars>>

\* one iteration of `for chunk in resp.iter_content(...)` with running true:
\* bytes_data += chunk, then the inner loop
RxChunk(chunk) ==
    /\ app = "rx"
    /\ Len(rx_stream) + Len(chunk) <= MaxBytes
    /\ rx_stream' = rx_stream \o chunk
    /\ LET r == extract_frames(bytes_data \o chunk, rx_jpgs)
       IN  /\ bytes_data' = r.bytes_data
           /\ rx_jpgs' = r.jpgs
    /\ UNCHANGED rxRest

NextRx ==
    \E n \in 1..MaxChunk : \E chunk \in [1..n -> Bytes] : RxChunk(chunk)

\* after the GET was answered with 200: bytes_data = bytes()
InitRx ==
    /\ app = "rx"
    /\ asyncio_bound = FALSE
    /\ InitFields

SpecRx == InitRx /\ [][NextRx]_vars

\* ------------------------------------------------ either server module
Init == InitHQ \/ InitVSB

\* start() on a processor none of whose earlier threads is still alive: the
\* first start(), or one after stop() once the thread has returned
HqStartOnce ==
    /\ hq_worker = EmptyBag
    /\ HqStart

VsbStartOnce ==
    /\ vsb_worker = EmptyBag
    /\ VsbStart

\* either processor with its producer and its thread, started and stopped but
\* not started again while a stopped thread is still on its way out
NextStop ==
    \/ HqAddFrame
    \/ HqStartOnce
    \/ HqStop
    \/ \E t \in BagToSet(hq_worker) : HqWorkerCheck(t)
    \/ \E t \in BagToSet(hq_worker) : HqWorkerGet(t)
    \/ \E t \in BagToSet(hq_worker), raised \in BOOLEAN : HqWorkerFinish(t, raised)
    \/ VsbAddFrame
    \/ VsbStartOnce
    \/ VsbStop
    \/ \E t \in BagToSet(vsb_worker) : VsbWorkerCheck(t)
    \/ \E t \in BagToSet(vsb_worker) : VsbWorkerGet(t)
    \/ \E t \in BagToSet(vsb_worker), raised \in BOOLEAN : VsbWorkerFinish(t, raised)
    \/ VsbGetProcessedFrame

\* the thread is scheduled: the loop test is evaluated, get(timeout=0.1) and
\* sleep(0.01) return, and the model and the drawing return or raise
WorkerRuns ==
    /\ WF_vars(\E t \in BagToSet(hq_worker) : HqWorkerCheck(t))
    /\ WF_vars(\E t \in BagToSet(hq_worker) : HqWorkerGet(t))
    /\ WF_vars(\E t \in BagToSet(hq_worker), raised \in BOOLEAN : HqWorkerFinish(t, raised))
    /\ WF_vars(\E t \in BagToSet(vsb_worker) : VsbWorkerCheck(t))
    /\ WF_vars(\E t \in BagToSet(vsb_worker) : VsbWorkerGet(t))
    /\ WF_vars(\E t \in BagToSet(vsb_worker), raised \in BOOLEAN : VsbWorkerFinish(t, raised))

SpecStop == Init /\ [][NextStop]_vars /\ WorkerRuns

Next == NextHQ \/ NextVSB

Spec == Init /\ [][Next]_vars

\* either server as its module drives it (start() at startup, no stop()),
\* with producers that also upload bytes that are no image
NextIngest ==
    \/ \E payload \in Payloads : HqUploadFrame(payload)
    \/ HqStart
    \/ \E t \in BagToSet(hq_worker) : HqWorkerCheck(t)
    \/ \E t \in BagToSet(hq_worker) : HqWorkerGet(t)
    \/ \E t \in BagToSet(hq_worker), raised \in BOOLEAN : HqWorkerFinish(t, raised)
    \/ HqConnect
    \/ \E c \in BagToSet(hq_session) : HqSessionGet(c)
    \/ \E c \in BagToSet(hq_session), raised \in BOOLEAN : HqSessionSend(c, raised)
    \/ \E payload \in Payloads : VsbUploadFrame(payload)
    \/ VsbStart
    \/ \E t \in BagToSet(vsb_worker) : VsbWorkerCheck(t)
    \/ \E t \in BagToSet(vsb_worker) : VsbWorkerGet(t)
    \/ \E t \in BagToSet(vsb_worker), raised \in BOOLEAN : VsbWorkerFinish(t, raised)
    \/ VsbGetProcessedFrame

SpecIngest == Init /\ [][NextIngest]_vars

\* ------------------------------------------------------------ claims
Submitted == next_frame - 1

\* frame f has been taken from the input queue by a worker
Dequeued(f) ==
    fate[f] \in {"held", "lost", "out_q", "out_rejected", "out_evicted", "taken"}

NoDequeue == \A f \in Frames : ~Dequeued(f)

FirstFrames(n) == [i \in 1..n |-> i]

\* the step is a call of add_frame
AddStep == next_frame' = next_frame + 1

\* the step is a worker offering frame f, which it held, to the output queue
PutStep(f) == fate[f] = "held" /\ fate'[f] \in {"out_q", "out_rejected"}

DroppedBy(n) == hq_stats'.dropped = hq_stats.dropped + n

\* C1: the input queue and the output queue of both pipelines never hold more
\* frames than the capacity they were constructed with
C1_QueuesBounded ==
    /\ Len(hq_input) <= BufferSize
    /\ Len(hq_output) <= BufferSize
    /\ Len(vsb_input) <= MaxSize
    /\ Len(vsb_output) <= MaxSize

\* an add_frame has met a full input queue, which is still full
C1_Witness ==
    /\ app = "hq"
    /\ Len(hq_input) = BufferSize
    /\ \E f \in Frames : fate[f] = "in_rejected"

\* C2: in HighQualityFrameProcessor every enqueue attempt (add_frame, the
\* worker's put) either places the frame or adds exactly one to dropped, never
\* both and never neither, no other step changes dropped, and so dropped
\* always equals the number of rejected attempts
C2_AttemptStep ==
    /\ AddStep =>
          \/ hq_input' = Append(hq_input, next_frame) /\ DroppedBy(0)
          \/ hq_input' = hq_input /\ DroppedBy(1)
    /\ \A f \in Frames : PutStep(f) =>
          \/ hq_output' = Append(hq_output, Copy(f)) /\ DroppedBy(0)
          \/ hq_output' = hq_output /\ DroppedBy(1)
    /\ (~AddStep /\ \A f \in Frames : ~PutStep(f)) => DroppedBy(0)

C2_DroppedIsRejected ==
    hq_stats.dropped =
        Cardinality({f \in Frames : fate[f] \in {"in_rejected", "out_rejected"}})

C2_PlacedXorDropped == [][C2_AttemptStep]_vars /\ []C2_DroppedIsRejected

\* both kinds of attempt have been rejected once
C2_Witness ==
    /\ \E f \in Frames : fate[f] = "in_rejected"
    /\ \E f \in Frames : fate[f] = "out_rejected"
    /\ hq_stats.dropped = 2

\* C3: add_frame increments received on every submission, rejected ones
\* included: after BufferSize + 2 submissions and no dequeue, received is
\* BufferSize + 2 and dropped is 2
C3_ReceivedCountsEverySubmission ==
    /\ hq_stats.received = Submitted
    /\ (NoDequeue /\ Submitted = BufferSize + 2) =>
          hq_stats.received = BufferSize + 2 /\ hq_stats.dropped = 2

\* C4: the input queue of HighQualityFrameProcessor is drop-newest: add_frame on
\* a full queue leaves the queue as it was, and with no dequeue the queue holds
\* the first BufferSize frames submitted, in order
C4_FullAddLeavesQueue ==
    (AddStep /\ Len(hq_input) = BufferSize) => hq_input' = hq_input

C4_NoDequeueHoldsFirst ==
    NoDequeue => hq_input = FirstFrames(Min(Submitted, BufferSize))

C4_DropNewest == [][C4_FullAddLeavesQueue]_vars /\ []C4_NoDequeueHoldsFirst

\* BufferSize + 2 frames submitted, none dequeued
C4_Witness ==
    /\ NoDequeue
    /\ Submitted = BufferSize + 2
    /\ hq_input = FirstFrames(BufferSize)

\* C5: VideoStreamBuffer.add_frame on a full input queue leaves the frames
\* already queued in place (the new frame is the one that is lost)
C5_VsbDropsNew ==
    [][(AddStep /\ Len(vsb_input) = MaxSize) => vsb_input' = vsb_input]_vars

\* C6: the output queue of HighQualityFrameProcessor is drop-oldest: when the
\* worker offers a frame to a full output queue the oldest queued frame is
\* evicted and the new frame is kept
C6_OutputDropsOldest ==
    [][\A f \in Frames :
          (PutStep(f) /\ Len(hq_output) = BufferSize) =>
              hq_output' = Append(Tail(hq_output), Copy(f))]_vars

\* C7: while running is true no worker thread leaves its loop, whatever the
\* input queue holds, the detector raises or the output queue rejects
C7_WorkerNeverExitsWhileRunning ==
    [][/\ BagCardinality(hq_worker') < BagCardinality(hq_worker) => ~hq_running
       /\ BagCardinality(vsb_worker') < BagCardinality(vsb_worker) => ~vsb_running]_vars

\* the detector has raised on a frame, the output queue has rejected another,
\* and a worker is again at the dequeue, on an empty input queue, still running
C7_Witness ==
    /\ app = "hq"
    /\ hq_running
    /\ \E f \in Frames : fate[f] = "lost"
    /\ \E f \in Frames : fate[f] = "out_rejected"
    /\ hq_input = <<>>
    /\ \E t \in BagToSet(hq_worker) : t.pc = "get"

\* C8: a dequeued frame never disappears: it is in the worker's hands, was
\* pushed to the output queue, or was counted as dropped
C8_NoFrameVanishes ==
    \A f \in Frames :
        Dequeued(f) =>
            fate[f] \in {"held", "out_q", "out_evicted", "taken", "out_rejected"}

\* C9: between iterations the processed counter equals the number of frames
\* dequeued: HighQualityFrameProcessor's stats['processed'] equals the number
\* of frames taken from the input queue whenever no worker has a frame in
\* hand, and every iteration of process_frames that took a frame adds one to
\* its processed_count
C9_HqProcessedIsDequeued ==
    (\A t \in BagToSet(hq_worker) : t.pc # "busy") =>
        hq_stats.processed = Cardinality({f \in Frames : Dequeued(f)})

C9_VsbIterationCounts ==
    \A t \in BagToSet(vsb_worker) :
        (t.pc = "busy" /\ CopiesIn(t, vsb_worker') < CopiesIn(t, vsb_worker)) =>
            BagIn([pc |-> "check", frame |-> 0,
                   processed_count |-> t.processed_count + 1], vsb_worker')

C9_ProcessedIsDequeued == []C9_HqProcessedIsDequeued /\ [][C9_VsbIterationCounts]_vars

TakeStep(fr) ==
    \E c \in BagToSet(hq_session) :
        /\ c.pc = "loop"
        /\ LET d == [c EXCEPT !.pc = "send", !.frame = fr]
           IN  CopiesIn(d, hq_session') > CopiesIn(d, hq_session)

\* C11: in websocket_stream every delivery cycle transmits something: whenever
\* a session is about to run a cycle, the cycle sends a frame, also when the
\* output queue has none to give
C11_EveryCycleTransmits ==
    \A c \in BagToSet(hq_session) : c.pc = "loop" => cycle_sends(hq_output)

\* C12: a websocket_stream session leaves its loop only because a send on its
\* channel failed; a cycle that found no frame attempts no send, so a session
\* at the top of its loop never ends in that cycle
C12_SessionEndsOnlyOnTransport ==
    [][\A c \in BagToSet(hq_session) :
          (c.pc = "loop" /\ CopiesIn(c, hq_session') < CopiesIn(c, hq_session)) =>
              BagCardinality(hq_session') >= BagCardinality(hq_session)]_vars

Produced(f) == fate[f] \in {"out_q", "out_evicted", "taken"}

\* C13: the chunk a cycle of generate() yields is the oldest queued processed
\* frame if there is one; with none queued it is a frame the worker produced,
\* and the placeholder only if the worker has produced no frame yet
C13_ChunkEveryCycle ==
    LET chunk == generate_chunk(vsb_output, vsb_last_frame)
    IN  /\ vsb_output # <<>> => chunk = Head(vsb_output)
        /\ vsb_output = <<>> =>
               IF \E f \in Frames : Produced(f)
               THEN chunk # Placeholder /\ Produced(chunk.id)
               ELSE chunk = Placeholder

\* the step ends a call of broadcast_detection_result made by track t
BroadcastEnds(t) == run_track[t].pc = "send" /\ run_track'[t].pc # "send"

\* the clients that call has tried to send to, and those whose send raised
Attempted(t) == run_track[t].done \cup {run_track[t].cur}

Raised(t) ==
    run_track[t].failed \cup
        (IF send_text_raises(run_track[t].cur) THEN {run_track[t].cur} ELSE {})

\* C15: whatever the /ws sessions do (connect, disconnect, fail a send), a
\* run_track loop ends only because its own track ended
C15_TrackSurvivesClients ==
    \A t \in Tracks : run_track[t].pc = "dead" => run_track[t].cause = "track"

\* C16: a call of broadcast_detection_result has tried to send to every client
\* that was registered when it began and still is when it ends; when it returns
\* every client whose send raised is out of websocket_clients, and every client
\* whose send succeeded is still in it unless its peer is gone
C16_BroadcastStep ==
    \A t \in Tracks :
        BroadcastEnds(t) =>
            /\ \A c \in run_track[t].snap \cap websocket_clients' : c \in Attempted(t)
            /\ run_track'[t].pc = "recv" =>
                  /\ Raised(t) \cap websocket_clients' = {}
                  /\ \A c \in Attempted(t) \ Raised(t) :
                        c \in websocket_clients' \/ ws_state'[c] # "open"

C16_BroadcastPrunes == [][C16_BroadcastStep]_vars

\* the request could not be decoded, or its detection raised
BadRequest(req) == req.kind \in {"bad_json", "bad_base64", "bad_image"} \/ req.det = "raises"

\* C17: an iteration of start_udp_server that received a datagram has sent
\* exactly one datagram, and to that datagram's sender
C17_OneResponsePerRequest ==
    udp_request # NoRequest =>
        Len(udp_sent) = 1 /\ udp_sent[1].to = udp_request.from

\* an undecodable image has been answered, after requests from someone else
C17_Witness ==
    /\ udp_request.kind = "bad_image"
    /\ udp_frame_count > 1
    /\ Len(udp_sent) = 1
    /\ udp_sent[1].body = error_response

\* C18: for a decoded image the server sends one datagram: the full result when
\* its serialization is shorter than 65000 bytes, else detections [] with the
\* result's w and h and count = the number of detections found
C18_OversizeSimplified ==
    udp_request.kind = "image" =>
        /\ Len(udp_sent) = 1
        /\ LET result == run_detection(udp_request)
               body == udp_sent[1].body
           IN  IF udp_request.size >= DatagramLimit
               THEN /\ body.detections = <<>>
                    /\ body.count = <<udp_request.n>>
                    /\ body.w = udp_request.w /\ body.h = udp_request.h
               ELSE /\ body = result
                    /\ body.detections = DetList(udp_request.n)
                    /\ body.count = <<>>

\* a result of exactly 65000 bytes with MaxDet detections went out simplified
C18_Witness ==
    /\ udp_request.size = DatagramLimit
    /\ udp_request.n = MaxDet
    /\ Len(udp_sent) = 1
    /\ udp_sent[1].body.count = <<MaxDet>>
    /\ udp_sent[1].body.detections = <<>>

\* C19: the loop of start_udp_server never ends; a request that cannot be
\* decoded or whose detection raises is answered with one datagram carrying an
\* empty detection list and an error; and what any other request is answered
\* with depends on that request alone, not on the bad requests before it
C19_BadRequestIsolated ==
    /\ udp_pc = "recv"
    /\ BadRequest(udp_request) =>
          /\ Len(udp_sent) = 1
          /\ udp_sent[1].body.detections = <<>>
          /\ udp_sent[1].body.error # ""
    /\ (udp_request # NoRequest /\ ~BadRequest(udp_request)) =>
          udp_sent = <<[to |-> udp_request.from,
                        body |-> IF udp_request.size < DatagramLimit
                                 THEN run_detection(udp_request)
                                 ELSE simple_result(run_detection(udp_request))]>>

\* after two bad requests a good one has been served in full
C19_Witness ==
    /\ udp_bad = 2
    /\ udp_request.det = "ok"
    /\ udp_request.n = MaxDet
    /\ udp_request.size < DatagramLimit
    /\ Len(udp_sent) = 1
    /\ udp_sent[1].body.detections = DetList(MaxDet)

\* C20: what a read of the cache returns is empty when more than 2.0 s have
\* passed since the latest update, and the list that update stored otherwise
C20_ExpiryOnRead ==
    LET r == read_cache(detections, last_detection_time, now)
    IN  lock_free(cache_lock) =>
            IF now - last_detection_time > ExpireTicks
            THEN r.snapshot = <<>>
            ELSE r.snapshot = stored

\* 2.1 s after the update that stored a non-empty list, a read has cleared the
\* cache and returned the empty list
C20_Witness ==
    /\ stored # <<>>
    /\ now - last_detection_time = ExpireTicks + 1
    /\ snapshot = <<>>
    /\ detections = <<>>


\* C21: a read inside the expiry window, with no update in between, leaves
\* the cache such that the next in-window read returns the same list
C21_ReadIdempotent ==
    [][(/\ cache_lock = "free" /\ cache_lock' = "free"
        /\ stored' = stored
        /\ last_detection_time' = last_detection_time
        /\ now' - last_detection_time' <= ExpireTicks)
       => read_cache(detections', last_detection_time', now').snapshot
          = read_cache(detections, last_detection_time, now).snapshot]_vars

\* a read inside the window has returned the non-empty list of an update made
\* earlier, and the cache still holds that list
C21_Witness ==
    /\ app = "client"
    /\ cache_lock = "free"
    /\ stored # <<>>
    /\ snapshot = stored
    /\ detections = stored
    /\ now > last_detection_time
    /\ now - last_detection_time <= ExpireTicks

\* C22: no read runs between the writer's store of the list and its store of
\* the timestamp, so a read never pairs one update's list with another's time
C22_NoTornRead == ~torn_read

\* the writer holds the lock between its two stores, with a list the reader
\* has not seen, after the reader has read an earlier update whole
C22_Witness ==
    /\ app = "client"
    /\ writer_pc = "time"
    /\ cache_lock = "writer"
    /\ snapshot # <<>>
    /\ snapshot # stored
    /\ ~torn_read

\* C23: whatever start() and stop() calls are made, at most one worker thread
\* is inside the processing loop
C23_AtMostOneWorker ==
    /\ BagCardinality(hq_worker) <= 1
    /\ BagCardinality(vsb_worker) <= 1

\* C24: every frame on an output queue is a copy the worker made, never the
\* buffer that was submitted
C24_OutputsAreCopies ==
    /\ \A i \in 1..Len(hq_output) : hq_output[i].buf = "copy"
    /\ \A i \in 1..Len(vsb_output) : vsb_output[i].buf = "copy"

\* an upload_frame call with bytes that are no image
BadUploadStep == last_upload'.bad = last_upload.bad + 1

\* C25: an upload that the full input queue rejects is not acknowledged the
\* way an enqueued one is ({"status": "ok"})
C25_AckTellsDrop ==
    [][(app = "hq" /\ AddStep /\ hq_input' = hq_input)
       => last_upload'.response # "ok"]_vars

\* C26: an undecodable upload returns status "error" and changes no queue and
\* no counter, and the next decodable upload is enqueued and acknowledged
C26_BadUploadHarmless ==
    [][/\ BadUploadStep =>
            /\ last_upload'.response = "error"
            /\ UNCHANGED <<hq_input, hq_output, hq_stats, vsb_input, vsb_output,
                           vsb_frame_count, next_frame>>
       /\ (last_upload.payload = "garbage" /\ AddStep) =>
            /\ last_upload'.response = "ok"
            /\ app = "hq" /\ Len(hq_input) < BufferSize =>
                   hq_input' = Append(hq_input, next_frame)
            /\ app = "vsb" =>
                   /\ vsb_input' # <<>>
                   /\ vsb_input'[Len(vsb_input')] = next_frame
                   /\ vsb_frame_count' = vsb_frame_count + 1]_vars

\* a frame was queued and counted, an undecodable upload was then answered
\* with "error", and the queue and counters are as before it
C26_Witness ==
    /\ last_upload.payload = "garbage"
    /\ last_upload.response = "error"
    /\ \/ app = "hq" /\ hq_input # <<>> /\ hq_stats.received > 0
       \/ app = "vsb" /\ vsb_input # <<>> /\ vsb_frame_count > 0

\* C27: the message_queue of an /offer call stays below a bound that the
\* number of frames arriving does not reach: it holds fewer messages than the
\* detections the track gives rise to
C27_MessageQueueBounded ==
    \A t \in Tracks :
        Len(run_track[t].message_queue) < MaxTrackFrames \div DetectEvery

\* C28: every peer connection in pcs belongs to a live session: its
\* connection has not closed and its track loop has not ended
C28_PcsHoldsLiveSessions ==
    \A t \in pcs : data_channel[t] # "closed" /\ run_track[t].pc # "dead"

\* C29: a WebSocket whose websocket_endpoint has returned is not in
\* websocket_clients, and the handler's exit takes no other client out
C29_GoneIsRemoved ==
    /\ [](\A c \in Clients : ws_state[c] = "gone" => c \notin websocket_clients)
    /\ [][\A c \in Clients :
             (ws_state[c] # "gone" /\ ws_state'[c] = "gone") =>
                 websocket_clients' = websocket_clients \ {c}]_vars

\* a handler has returned while a broadcast was in progress and another
\* client is still registered
C29_Witness ==
    /\ app = "ws"
    /\ \E c \in Clients : ws_state[c] = "gone"
    /\ \E c \in Clients : ws_state[c] = "open" /\ c \in websocket_clients
    /\ \E t \in Tracks : run_track[t].pc = "send"

\* C30: at most one load ever makes a model; once _model is set it is never
\* replaced, and every call that returns from then on returns that instance
C30_LoadedOnce ==
    /\ [](loads <= 1)
    /\ [][model # 0 =>
             /\ model' = model
             /\ \A k \in Callers :
                    (loader[k].pc # "done" /\ loader'[k].pc = "done") =>
                        loader'[k].got = model]_vars

\* the model has been loaded once, every thread's latest call has returned
\* that one instance, and one thread has called load_model MaxCalls times
C30_Witness ==
    /\ app = "load"
    /\ loads = 1
    /\ \E k \in Callers : loader[k].calls = MaxCalls
    /\ \A k \in Callers : loader[k].pc = "done" /\ loader[k].got = model

C32_LockNotHeldWhileBusy ==
    /\ vsb_thread["worker"].pc = "detect" => vsb_lock # "worker"
    /\ vsb_thread["upload"].pc = "decode" => vsb_lock # "upload"
    /\ vsb_lock # "free" =>
           vsb_thread[vsb_lock].pc \in {"add", "get", "in", "out", "exc"}

\* a detection is in progress, add_frame holds the lock and the consumer is
\* waiting for it with a frame on the output queue
C32_Witness ==
    /\ app = "lock"
    /\ vsb_thread["worker"].pc = "detect"
    /\ vsb_lock = "upload"
    /\ vsb_thread["stream"].pc = "get"
    /\ vsb_output # <<>>

\* C33: the frames add_frame appends come in capture order, none twice
C33_AppendedInCaptureOrder ==
    \A i, j \in 1..Len(appended) : i < j => appended[i] < appended[j]

\* C34: at most one async_detection thread is alive at any time
C34_OneDetectionInFlight == in_flight <= 1

\* C38: whatever toggle() calls are made, at most one detection_loop thread
\* is alive
C38_OneLoopThread == BagCardinality(det_loop) <= 1

\* C35: a message buffered while the channel was not open does not stay in
\* message_queue with the channel open: it is not left there when the
\* coroutine that flushes the queue has ended
C35_BufferedAreFlushed ==
    \A t \in Tracks :
        (data_channel[t] = "open" /\ run_track[t].pc = "dead") =>
            run_track[t].message_queue = <<>>

\* the sessions in the middle of sending frame f
Sending(f) == {c \in BagToSet(hq_session) : c.pc = "send" /\ c.frame.id = f}

\* C36: the /stream sessions share the frames out: a frame is in the hands
\* of at most one session, and a frame that a session has been given is off
\* the output queue for good, so no other session can be given it
C36_SessionsPartition ==
    \A f \in Frames :
        /\ Cardinality(Sending(f)) <= 1
        /\ \A c \in Sending(f) : CopiesIn(c, hq_session) = 1 /\ fate[f] = "taken"
        /\ fate[f] = "taken" => \A i \in 1..Len(hq_output) : hq_output[i].id # f

\* two sessions are sending at the same time, each a frame of its own
C36_Witness ==
    /\ app = "hq"
    /\ \E f, g \in Frames : f # g /\ Sending(f) # {} /\ Sending(g) # {}

\* C37: every datagram start_udp_server sends goes to the sender of the request
\* received in the same iteration: an iteration whose recvfrom raised has sent
\* nothing
C37_SentToCurrentSender ==
    \A i \in 1..Len(udp_sent) :
        udp_request # NoRequest /\ udp_sent[i].to = udp_request.from

\* the threads of either processor that are at pc
WorkersAt(pc) ==
    {t \in BagToSet(hq_worker) \cup BagToSet(vsb_worker) : t.pc = pc}

\* C39: once stop() has been called the thread leaves its loop, with or
\* without frames in the input queue: it starts no iteration after the loop
\* test, and its return leaves the queues and the counters as they are
C39_StoppedWorkerLeaves ==
    /\ (app = "hq" /\ ~hq_running) ~> (hq_worker = EmptyBag)
    /\ (app = "vsb" /\ ~vsb_running) ~> (vsb_worker = EmptyBag)
    /\ [][(~hq_running /\ ~vsb_running) =>
             /\ \A t \in WorkersAt("check") :
                    /\ [t EXCEPT !.pc = "get"] \notin BagToSet(hq_worker')
                    /\ [t EXCEPT !.pc = "get"] \notin BagToSet(vsb_worker')
             /\ (hq_worker' = EmptyBag /\ vsb_worker' = EmptyBag /\
                 WorkersAt("check") # {}) =>
                    UNCHANGED <<hq_input, hq_output, hq_stats, vsb_input, vsb_output,
                                vsb_last_frame, vsb_frame_count, fate>>]_vars

\* a stopped processor whose thread has returned after a frame of its own,
\* with a frame left in the input queue
C39_Witness ==
    \/ /\ app = "hq" /\ ~hq_running /\ hq_worker = EmptyBag /\ hq_input # <<>>
       /\ \E f \in Frames : fate[f] = "out_q"
    \/ /\ app = "vsb" /\ ~vsb_running /\ vsb_worker = EmptyBag /\ vsb_input # <<>>
       /\ \E f \in Frames : fate[f] = "out_q"

\* buf holds a start marker and, later, an end marker
HasFrame(buf) ==
    \E i, j \in 1..(Len(buf) - 1) :
        /\ i < j
        /\ <<buf[i], buf[i + 1]>> = StartMarker
        /\ <<buf[j], buf[j + 1]>> = EndMarker

\* C40: receive_stream leaves no complete frame in its buffer: when the bytes
\* it holds contain a start marker followed later by an end marker, the
\* iteration has cut that frame out and consumed the buffer past it,
\* whatever the chunking and whatever bytes come before the frame
C40_CompleteFrameExtracted == ~HasFrame(bytes_data)
====
